---- MODULE Spec2Model ----
(***************************************************************************)
(* RelaySMS email bridge (SimpleLogin client).                             *)
(*                                                                         *)
(* send_email (src/simplelogin/client.py) drives, for one request:         *)
(*   alias listing -> [mailbox listing -> suffix lookup -> alias creation] *)
(*   -> contact get-or-create for to / cc / bcc -> SMTP session.           *)
(* Every external call (one HTTP request of src/simplelogin/api.py, one    *)
(* smtplib call) is one step of the invocation that issues it; the local   *)
(* computation that follows the call up to the next external call belongs  *)
(* to the same step.                                                       *)
(*                                                                         *)
(* Text is modelled as a sequence of one-character strings, so that the    *)
(* regular-expression substitution, the concatenations and the service's   *)
(* substring filter are computed rather than assumed.                      *)
(***************************************************************************)
EXTENDS Naturals, Sequences, FiniteSets, TLC

VARIABLES
    cfg,      \* module-level configuration read at import (client.py:25-34)
    aliases,  \* the aliases held by the remote alias service, in creation order
    frame     \* per invocation of send_email: its position and its locals

vars == <<cfg, aliases, frame>>

(***************************************************************************)
(* Bounds and input sets                                                   *)
(***************************************************************************)
\* Quota of the alias service: the most aliases it will hold.
MaxAliases == 3

\* Longest raw phone string enumerated when normalization is checked alone.
MaxPhoneLen == 3

\* Invocations of send_email (two, so that interleavings can be expressed).
Procs == {"p1", "p2"}

\* Raw phone numbers handed to send_email.
Phones ==
    { <<"+", "1", "2">>, <<"1", "-", "2">>, <<"2">>,
      <<"+", "2", "3", "7", "1", "2", "3", "4", "5", "6", "7", "8", "9">> }

\* An address is a record: via = 0 is a real mailbox address, via = n > 0 is
\* the reverse alias the service issued for that recipient under alias n.
Addr(name, via) == [name |-> name, via |-> via]
None == Addr("None", 0)
RealRecipients == {Addr("alice", 0), Addr("bob", 0)}

SL_PRIMARY_EMAIL == Addr("admin", 0)
SL_PRIMARY_DOMAIN == <<"e", "x", "a", "m", "p", "l", "e", ".", "c", "o", "m">>
BRIDGE_SMTP_USERNAME == Addr("smtpuser", 0)

NoAlias == [id |-> 0, email |-> <<>>, note |-> "None"]
NoMailbox == [id |-> 0, email |-> None]
NoResult == [success |-> FALSE, message |-> "None"]
NoMsg == [From |-> None, To |-> None, Cc |-> None, Bcc |-> None]

\* How one HTTP request can end: a 2xx response, a non-2xx response carrying
\* a JSON body, or no response at all (connection error, timeout).
Outcomes == {"ok", "http_error", "no_response"}

(***************************************************************************)
(* Pure helpers                                                            *)
(***************************************************************************)
\* The characters \d matches. The pattern is a str pattern, so \d is any
\* Unicode decimal digit: "U+0663" stands for one of them outside ASCII
\* (ARABIC-INDIC DIGIT THREE), written here by its code point.
IsDigit(c) == c \in {"0", "1", "2", "3", "4", "5", "6", "7", "8", "9", "U+0663"}

RECURSIVE StripNonDigits(_)
StripNonDigits(s) ==
    IF s = <<>> THEN <<>>
    ELSE IF IsDigit(Head(s)) THEN <<Head(s)>> \o StripNonDigits(Tail(s))
    ELSE StripNonDigits(Tail(s))

\* Variant: only the "+" sign is removed.
IsNotPlus(c) == c # "+"
strip_plus_only(phone_number) == SelectSeq(phone_number, IsNotPlus)

\* Variant: the leading "+" and three-digit country code are dropped as well.
number_without_country_code(phone_number) ==
    IF phone_number # <<>> /\ Head(phone_number) = "+"
    THEN StripNonDigits(SubSeq(phone_number, 5, Len(phone_number)))
    ELSE StripNonDigits(phone_number)

\* client.py:50  re.sub(r"\D", "", phone_number)
cleaned_phone_number(phone_number) == StripNonDigits(phone_number)

\* Variant: the configured suffix is left out of the key.
given_alias_prefix_without_suffix(c, phone_number) ==
    c.prefix \o cleaned_phone_number(phone_number)

\* client.py:54-56  f"{PREFIX}{cleaned_phone_number}{SUFFIX}"
given_alias_prefix(c, phone_number) ==
    c.prefix \o cleaned_phone_number(phone_number) \o c.suffix

\* client.py:58  the query handed to get_aliases
alias_query(c, phone_number) ==
    given_alias_prefix(c, phone_number) \o <<"@">> \o SL_PRIMARY_DOMAIN

\* q occurs in s as a contiguous block
Contains(s, q) ==
    \E k \in 0..Len(s) :
        /\ k + Len(q) <= Len(s)
        /\ \A j \in 1..Len(q) : s[k + j] = q[j]

RECURSIVE Matching(_, _)
Matching(as, q) ==
    IF as = <<>> THEN <<>>
    ELSE IF Contains(Head(as).email, q)
         THEN <<Head(as)>> \o Matching(Tail(as), q)
         ELSE Matching(Tail(as), q)

Reverse(s) == [k \in 1..Len(s) |-> s[Len(s) + 1 - k]]

\* The alias service's answer to POST /v2/aliases {query}: the aliases whose
\* address contains the query, in an order of the service's choosing.
ListingResponses(as, q) == {Matching(as, q), Reverse(Matching(as, q))}

\* The alias service's answer to GET /mailboxes: the account's mailboxes,
\* which may or may not include the configured primary mailbox.
MailboxListings ==
    { <<[id |-> 7, email |-> SL_PRIMARY_EMAIL]>>,
      <<[id |-> 8, email |-> Addr("other", 0)],
        [id |-> 7, email |-> SL_PRIMARY_EMAIL]>>,
      <<[id |-> 8, email |-> Addr("other", 0)]>>,
      <<>> }

\* The alias service's answer to GET /v5/alias/options: the suffixes on offer.
SuffixListings ==
    { << [suffix |-> <<"@">> \o SL_PRIMARY_DOMAIN, signed_suffix |-> "signed-d"] >>,
      << [suffix |-> <<".", "x", "@">> \o SL_PRIMARY_DOMAIN, signed_suffix |-> "signed-x"],
         [suffix |-> <<"@">> \o SL_PRIMARY_DOMAIN, signed_suffix |-> "signed-d"] >>,
      << [suffix |-> <<".", "x", "@">> \o SL_PRIMARY_DOMAIN, signed_suffix |-> "signed-x"] >>,
      <<>> }

NoSuffix == [suffix |-> <<>>, signed_suffix |-> "None"]

\* The address the service gives an alias created from a prefix and a suffix.
SuffixText(signed) ==
    IF signed = "signed-d" THEN <<"@">> \o SL_PRIMARY_DOMAIN
    ELSE <<".", "x", "@">> \o SL_PRIMARY_DOMAIN

\* The contact the service returns for (alias, recipient): its reverse alias.
ServiceContact(alias_id, email_address) ==
    [contact |-> email_address, reverse_alias |-> Addr(email_address.name, alias_id)]

(***************************************************************************)
(* src/simplelogin/api.py                                                  *)
(***************************************************************************)
\* The shared shape of every operation's try/except (e.g. api.py:96-108):
\* what the operation hands its caller for each way the request can end.
\*   "value"  : the parsed response
\*   "None"   : the None / False sentinel (after the handler logged the error)
\*   "raised" : an exception leaves the operation
\* In the handler, e.response.json() is evaluated first; with no response
\* e.response is None and the attribute access raises AttributeError.
api_except(outcome) ==
    IF outcome = "no_response" THEN "raised" ELSE "None"

api_return(outcome) ==
    IF outcome = "ok" THEN "value" ELSE api_except(outcome)

\* api.py:61-70  the first suffix equal to "@" + hostname, else None
RECURSIVE find_suffix(_, _)
find_suffix(suffixes, hostname) ==
    IF suffixes = <<>> THEN NoSuffix
    ELSE IF Head(suffixes).suffix = <<"@">> \o hostname THEN Head(suffixes)
    ELSE find_suffix(Tail(suffixes), hostname)

\* api.py:230-237  the first mailbox whose email equals the given one, else None
RECURSIVE find_mailbox(_, _)
find_mailbox(mailboxes, email) ==
    IF mailboxes = <<>> THEN NoMailbox
    ELSE IF Head(mailboxes).email = email THEN Head(mailboxes)
    ELSE find_mailbox(Tail(mailboxes), email)

(***************************************************************************)
(* The record of one external call, kept per invocation                    *)
(***************************************************************************)
Call(op, out, ret) ==
    [ op |-> op,            \* which operation
      out |-> out,          \* how the request ended
      ret |-> ret,          \* what the operation handed back
      key |-> <<>>,         \* text argument (query, alias prefix)
      addr |-> None,        \* address argument (mailbox, recipient)
      role |-> "",          \* for a contact call: "to", "cc" or "bcc"
      alias |-> NoAlias,    \* alias argument or result
      list |-> <<>>,        \* aliases of a listing response
      msg |-> NoMsg,        \* message of a sendmail
      rcpts |-> <<>> ]      \* envelope recipients of a sendmail

\* The HTTP requests of api.py, named by the function that issues them
\* ("post_custom_alias" is the creation request of create_alias, api.py:152).
\* An entry with op = "create_alias" records the client's call of create_alias
\* itself (client.py:69), with the prefix it passes.
HttpOps ==
    {"get_aliases", "get_all_mailboxes", "get_signed_suffix",
     "post_custom_alias", "get_or_create_alias_contact"}
SmtpOps == {"connect", "starttls", "login", "sendmail", "quit"}

(***************************************************************************)
(* src/simplelogin/client.py: locals of one send_email invocation          *)
(***************************************************************************)
IdleFrame ==
    [ pc |-> "idle",
      phone_number |-> <<>>,
      to_email |-> None, cc_email |-> None, bcc_email |-> None,
      pn_alias |-> NoAlias,
      primary_mailbox |-> NoMailbox,
      signed_suffix |-> "None",
      to_email_reverse_alias |-> None,
      cc_email_reverse_alias |-> None,
      bcc_email_reverse_alias |-> None,
      msg |-> NoMsg,
      recipients |-> <<>>,
      session |-> "none",      \* the smtplib.SMTP object: none / open / closed
      result |-> NoResult,
      calls |-> <<>> ]

\* client.py:196, 203-206, 218, 222: the four tuples send_email returns
AliasFailure ==
    [success |-> FALSE,
     message |-> "Failed to create phone number alias. Please try again later."]
ToContactFailure ==
    [success |-> FALSE,
     message |-> "Failed to create to_email contact reverse alias. Please try again later."]
GenericFailure ==
    [success |-> FALSE, message |-> "Failed to send email. Please try again later."]
Success ==
    [success |-> TRUE, message |-> "Email sent successfully at <timestamp>."]

Log(f, call) == [f EXCEPT !.calls = Append(@, call)]

\* Variant: the exception is not caught and leaves send_email.
on_exception_uncaught(f) == [f EXCEPT !.pc = "escaped"]

\* Variant: the text of the exception is put into the returned message.
on_exception_with_text(f) ==
    [f EXCEPT !.pc = "done",
              !.result = [success |-> FALSE,
                          message |-> "Failed to send email: <exception text>"]]

\* client.py:220-222  except Exception: return the generic failure
on_exception(f) == [f EXCEPT !.pc = "done", !.result = GenericFailure]

\* client.py:59-60, 66-67, 76-77 then 195-196  alias step returned None
on_alias_none(f) == [f EXCEPT !.pc = "done", !.result = AliasFailure]

\* Variant: the listing is not consulted before creating.
aliases_never_found(list) == FALSE

\* client.py:62  bool(aliases)
aliases_found(list) == list # <<>>

\* Variant: the last alias of the response is taken.
last_alias(list) == list[Len(list)]

\* client.py:63  aliases[0]
first_alias(list) == list[1]

\* client.py:103, 108  "if cc_email" / "if bcc_email": whether a call is made
supplied(email) == email # None

\* Variant: fall back to the recipient's own address when there is no contact.
reverse_alias_or_address(ret, contact) ==
    IF ret = "value" THEN contact.reverse_alias ELSE contact.contact

\* client.py:112-120  contact["reverse_alias"] if contact else None
reverse_alias_of(ret, contact) ==
    IF ret = "value" THEN contact.reverse_alias ELSE None

\* client.py:142-150  the headers of the outgoing message
compose(to_ra, cc_ra, bcc_ra) ==
    [ From |-> SL_PRIMARY_EMAIL,
      To |-> to_ra,
      Cc |-> IF cc_ra # None THEN cc_ra ELSE None,
      Bcc |-> IF bcc_ra # None THEN bcc_ra ELSE None ]

\* Variant: the bcc reverse alias is left out of the envelope.
envelope_without_bcc(to_ra, cc_ra, bcc_ra) ==
    <<to_ra>> \o (IF cc_ra # None THEN <<cc_ra>> ELSE <<>>)

\* client.py:159-163  the envelope recipients
envelope(to_ra, cc_ra, bcc_ra) ==
    <<to_ra>> \o (IF cc_ra # None THEN <<cc_ra>> ELSE <<>>)
              \o (IF bcc_ra # None THEN <<bcc_ra>> ELSE <<>>)

\* Variant: the `to` reverse alias is not checked before the SMTP step.
after_handle_aliases_unchecked(f) ==
    [f EXCEPT !.pc = "connect",
              !.msg = compose(f.to_email_reverse_alias,
                              f.cc_email_reverse_alias,
                              f.bcc_email_reverse_alias)]

\* client.py:202-214, 142-152  after __handle_aliases__ returned: give up when
\* the `to` reverse alias is None, else build the message and go on to SMTP
after_handle_aliases(f) ==
    IF f.to_email_reverse_alias = None
    THEN [f EXCEPT !.pc = "done", !.result = ToContactFailure]
    ELSE [f EXCEPT !.pc = "connect",
                   !.msg = compose(f.to_email_reverse_alias,
                                   f.cc_email_reverse_alias,
                                   f.bcc_email_reverse_alias)]

\* client.py:98-110  which contact call follows the `to` call
after_to_contact(f) ==
    IF supplied(f.cc_email) THEN [f EXCEPT !.pc = "cc_contact"]
    ELSE IF supplied(f.bcc_email) THEN [f EXCEPT !.pc = "bcc_contact"]
    ELSE after_handle_aliases(f)

\* client.py:106-110  which contact call follows the `cc` call
after_cc_contact(f) ==
    IF supplied(f.bcc_email) THEN [f EXCEPT !.pc = "bcc_contact"]
    ELSE after_handle_aliases(f)

(***************************************************************************)
(* Actions                                                                 *)
(***************************************************************************)
Configs ==
    { [prefix |-> pre_suf[1], suffix |-> pre_suf[2], tls |-> t] :
        pre_suf \in { <<<<>>, <<>>>>, <<<<"r">>, <<"s">>>> }, t \in BOOLEAN }

InitialAliases ==
    { <<>>,
      << [id |-> 1, email |-> <<"9", "2", "@">> \o SL_PRIMARY_DOMAIN, note |-> "pre"] >> }

Init ==
    /\ cfg \in Configs
    /\ aliases \in InitialAliases
    /\ frame = [i \in Procs |-> IdleFrame]

Set(i, f) == frame' = [frame EXCEPT ![i] = f]

\* client.py:169-191  send_email is entered with its arguments
StartWith(i, phones, tos, ccs, bccs) ==
    /\ frame[i].pc = "idle"
    /\ \E ph \in phones, to \in tos, cc \in ccs, bcc \in bccs :
         Set(i, [IdleFrame EXCEPT !.pc = "get_aliases", !.phone_number = ph,
                                  !.to_email = to, !.cc_email = cc, !.bcc_email = bcc])
    /\ UNCHANGED <<cfg, aliases>>

Start(i) ==
    StartWith(i, Phones, RealRecipients,
              RealRecipients \cup {None}, RealRecipients \cup {None})

\* client.py:58-63 with api.py:79-108
GetAliases(i) ==
    /\ frame[i].pc = "get_aliases"
    /\ \E out \in Outcomes, list \in ListingResponses(aliases, alias_query(cfg, frame[i].phone_number)) :
         LET q == alias_query(cfg, frame[i].phone_number)
             ret == api_return(out)
             f == Log(frame[i], [Call("get_aliases", out, ret) EXCEPT
                                   !.key = q,
                                   !.list = IF out = "ok" THEN list ELSE <<>>])
         IN  Set(i, IF ret = "raised" THEN on_exception(f)
                    ELSE IF ret = "None" THEN on_alias_none(f)
                    ELSE IF aliases_found(list)
                         THEN [f EXCEPT !.pn_alias = first_alias(list), !.pc = "to_contact"]
                         ELSE [f EXCEPT !.pc = "get_all_mailboxes"])
    /\ UNCHANGED <<cfg, aliases>>

\* client.py:65-67 with api.py:192-237
GetAllMailboxes(i) ==
    /\ frame[i].pc = "get_all_mailboxes"
    /\ \E out \in Outcomes, mailboxes \in MailboxListings :
         LET ret == api_return(out)
             mailbox == IF ret = "value" THEN find_mailbox(mailboxes, SL_PRIMARY_EMAIL)
                        ELSE NoMailbox
             f == Log(frame[i], [Call("get_all_mailboxes", out, ret) EXCEPT
                                   !.addr = SL_PRIMARY_EMAIL])
         IN  Set(i, IF ret = "raised" THEN on_exception(f)
                    ELSE IF mailbox = NoMailbox THEN on_alias_none(f)
                    ELSE [f EXCEPT !.primary_mailbox = mailbox, !.pc = "get_signed_suffix"])
    /\ UNCHANGED <<cfg, aliases>>

\* client.py:69-75 calls create_alias, which starts with the suffix lookup:
\* api.py:131-137 with api.py:40-76
GetSignedSuffix(i) ==
    /\ frame[i].pc = "get_signed_suffix"
    /\ \E out \in Outcomes, suffixes \in SuffixListings :
         LET ret == api_return(out)
             suffix == IF ret = "value" THEN find_suffix(suffixes, SL_PRIMARY_DOMAIN)
                       ELSE NoSuffix
             entered == Log(frame[i], [Call("create_alias", "called", "called") EXCEPT
                                   !.key = given_alias_prefix(cfg, frame[i].phone_number),
                                   !.addr = frame[i].primary_mailbox.email])
             f == Log(entered, [Call("get_signed_suffix", out, ret) EXCEPT
                                   !.key = SL_PRIMARY_DOMAIN])
         IN  Set(i, IF ret = "raised" THEN on_exception(f)
                    ELSE IF suffix = NoSuffix THEN on_alias_none(f)
                    ELSE [f EXCEPT !.signed_suffix = suffix.signed_suffix,
                                   !.pc = "post_custom_alias"])
    /\ UNCHANGED <<cfg, aliases>>

\* api.py:139-163 then client.py:76-79: the creation request
CreateAlias(i) ==
    /\ frame[i].pc = "post_custom_alias"
    /\ \E out \in Outcomes :
         LET prefix == given_alias_prefix(cfg, frame[i].phone_number)
             ret == api_return(out)
             alias == [id |-> Len(aliases) + 1,
                       email |-> prefix \o SuffixText(frame[i].signed_suffix),
                       note |-> "bridge"]
             f == Log(frame[i], [Call("post_custom_alias", out, ret) EXCEPT
                                   !.key = prefix,
                                   !.alias = IF out = "ok" THEN alias ELSE NoAlias])
         IN  /\ out = "ok" => Len(aliases) < MaxAliases
             /\ aliases' = IF out = "ok" THEN Append(aliases, alias) ELSE aliases
             /\ Set(i, IF ret = "raised" THEN on_exception(f)
                       ELSE IF ret = "None" THEN on_alias_none(f)
                       ELSE [f EXCEPT !.pn_alias = alias, !.pc = "to_contact"])
    /\ UNCHANGED cfg

\* One get_or_create_alias_contact call (api.py:240-273) of __handle_aliases__
ContactCall(f, role, email_address, out) ==
    Log(f, [Call("get_or_create_alias_contact", out, api_return(out)) EXCEPT
              !.role = role, !.addr = email_address, !.alias = f.pn_alias])

\* client.py:98-100, 112-114
ToContact(i) ==
    /\ frame[i].pc = "to_contact"
    /\ \E out \in Outcomes :
         LET ret == api_return(out)
             f == ContactCall(frame[i], "to", frame[i].to_email, out)
             ra == reverse_alias_of(ret, ServiceContact(f.pn_alias.id, f.to_email))
         IN  Set(i, IF ret = "raised" THEN on_exception(f)
                    ELSE after_to_contact([f EXCEPT !.to_email_reverse_alias = ra]))
    /\ UNCHANGED <<cfg, aliases>>

\* client.py:101-105, 115-117
CcContact(i) ==
    /\ frame[i].pc = "cc_contact"
    /\ \E out \in Outcomes :
         LET ret == api_return(out)
             f == ContactCall(frame[i], "cc", frame[i].cc_email, out)
             ra == reverse_alias_of(ret, ServiceContact(f.pn_alias.id, f.cc_email))
         IN  Set(i, IF ret = "raised" THEN on_exception(f)
                    ELSE after_cc_contact([f EXCEPT !.cc_email_reverse_alias = ra]))
    /\ UNCHANGED <<cfg, aliases>>

\* client.py:106-110, 118-122
BccContact(i) ==
    /\ frame[i].pc = "bcc_contact"
    /\ \E out \in Outcomes :
         LET ret == api_return(out)
             f == ContactCall(frame[i], "bcc", frame[i].bcc_email, out)
             ra == reverse_alias_of(ret, ServiceContact(f.pn_alias.id, f.bcc_email))
         IN  Set(i, IF ret = "raised" THEN on_exception(f)
                    ELSE after_handle_aliases([f EXCEPT !.bcc_email_reverse_alias = ra]))
    /\ UNCHANGED <<cfg, aliases>>

\* How one smtplib call can end.
SmtpOutcomes == {"ok", "raise"}

SmtpCall(op, out) == Call(op, out, IF out = "ok" THEN "value" ELSE "raised")

\* client.py:154  smtplib.SMTP(host, port) connects
Connect(i) ==
    /\ frame[i].pc = "connect"
    /\ \E out \in SmtpOutcomes :
         LET f == Log(frame[i], SmtpCall("connect", out))
         IN  Set(i, IF out = "raise" THEN on_exception(f)
                    ELSE [f EXCEPT !.session = "open",
                                   !.pc = IF cfg.tls THEN "starttls" ELSE "login"])
    /\ UNCHANGED <<cfg, aliases>>

\* client.py:155-156
StartTLS(i) ==
    /\ frame[i].pc = "starttls"
    /\ \E out \in SmtpOutcomes :
         LET f == Log(frame[i], SmtpCall("starttls", out))
         IN  Set(i, IF out = "raise" THEN on_exception(f) ELSE [f EXCEPT !.pc = "login"])
    /\ UNCHANGED <<cfg, aliases>>

\* client.py:157-163
Login(i) ==
    /\ frame[i].pc = "login"
    /\ \E out \in SmtpOutcomes :
         LET f == Log(frame[i], SmtpCall("login", out))
         IN  Set(i, IF out = "raise" THEN on_exception(f)
                    ELSE [f EXCEPT !.pc = "sendmail",
                                   !.recipients = envelope(f.to_email_reverse_alias,
                                                           f.cc_email_reverse_alias,
                                                           f.bcc_email_reverse_alias)])
    /\ UNCHANGED <<cfg, aliases>>

\* client.py:165
Sendmail(i) ==
    /\ frame[i].pc = "sendmail"
    /\ \E out \in SmtpOutcomes :
         LET f == Log(frame[i], [SmtpCall("sendmail", out) EXCEPT
                                   !.addr = BRIDGE_SMTP_USERNAME,
                                   !.msg = frame[i].msg,
                                   !.rcpts = frame[i].recipients])
         IN  Set(i, IF out = "raise" THEN on_exception(f) ELSE [f EXCEPT !.pc = "quit"])
    /\ UNCHANGED <<cfg, aliases>>

\* client.py:166 then 216-218
Quit(i) ==
    /\ frame[i].pc = "quit"
    /\ \E out \in SmtpOutcomes :
         LET f == Log(frame[i], SmtpCall("quit", out))
         IN  Set(i, IF out = "raise" THEN on_exception(f)
                    ELSE [f EXCEPT !.session = "closed", !.pc = "done", !.result = Success])
    /\ UNCHANGED <<cfg, aliases>>

\* Variant: a send that failed takes back the alias it created.
Return_with_rollback(i) ==
    /\ frame[i].pc = "done"
    /\ Set(i, IdleFrame)
    /\ aliases' =
           IF /\ frame[i].result # Success
              /\ \E k \in DOMAIN frame[i].calls :
                     /\ frame[i].calls[k].op = "post_custom_alias"
                     /\ frame[i].calls[k].out = "ok"
              /\ Len(aliases) > 0
           THEN SubSeq(aliases, 1, Len(aliases) - 1)
           ELSE aliases
    /\ UNCHANGED cfg

\* The caller has its tuple; the invocation's locals are gone.
Return(i) ==
    /\ frame[i].pc = "done"
    /\ Set(i, IdleFrame)
    /\ UNCHANGED <<cfg, aliases>>

\* spec.md section 5: strictly sequential use, one send_email at a time
Sequential(i) == \A j \in Procs \ {i} : frame[j].pc = "idle"

Next ==
    \E i \in Procs :
        \/ Sequential(i) /\ Start(i)
        \/ Sequential(i) /\ GetAliases(i)
        \/ Sequential(i) /\ GetAllMailboxes(i)
        \/ Sequential(i) /\ GetSignedSuffix(i)
        \/ Sequential(i) /\ CreateAlias(i)
        \/ Sequential(i) /\ ToContact(i)
        \/ Sequential(i) /\ CcContact(i)
        \/ Sequential(i) /\ BccContact(i)
        \/ Sequential(i) /\ Connect(i)
        \/ Sequential(i) /\ StartTLS(i)
        \/ Sequential(i) /\ Login(i)
        \/ Sequential(i) /\ Sendmail(i)
        \/ Sequential(i) /\ Quit(i)
        \/ Sequential(i) /\ Return(i)

Spec == Init /\ [][Next]_vars

(***************************************************************************)
(* Concurrent use: two invocations of send_email interleave freely at      *)
(* their external calls. Nothing in client.py or api.py takes a lock, so   *)
(* no step waits for the other invocation. The inputs are narrowed to two  *)
(* raw spellings of one phone number and the default configuration.        *)
(***************************************************************************)
InitConc ==
    /\ cfg = [prefix |-> <<>>, suffix |-> <<>>, tls |-> TRUE]
    /\ aliases = <<>>
    /\ frame = [i \in Procs |-> IdleFrame]

StartConc(i) ==
    StartWith(i, { <<"+", "1", "2">>, <<"1", "-", "2">> }, {Addr("alice", 0)},
              {None, Addr("bob", 0)}, {Addr("bob", 0)})

NextConc ==
    \E i \in Procs :
        \/ StartConc(i)
        \/ GetAliases(i)
        \/ GetAllMailboxes(i)
        \/ GetSignedSuffix(i)
        \/ CreateAlias(i)
        \/ ToContact(i)
        \/ CcContact(i)
        \/ BccContact(i)
        \/ Connect(i)
        \/ StartTLS(i)
        \/ Login(i)
        \/ Sendmail(i)
        \/ Quit(i)
        \/ Return(i)

SpecConc == InitConc /\ [][NextConc]_vars

(***************************************************************************)
(* Normalization alone: client.py:50-58 applied to every short string over *)
(* a small alphabet and to the spec's example, then applied again to its   *)
(* own output.                                                             *)
(***************************************************************************)
RawAlphabet == {"1", "2", "+", "-", " ", "U+0663"}

ExamplePhone ==
    <<"+", "2", "3", "7", " ", "1", "2", "3", "-", "4", "5", "6", "7", "8", "9">>

RawPhones ==
    UNION {[1..n -> RawAlphabet] : n \in 0..MaxPhoneLen} \cup {ExamplePhone}

InitNorm ==
    /\ cfg \in Configs
    /\ aliases = <<>>
    /\ frame = [i \in Procs |-> IdleFrame]

\* client.py:50-58: the cleaned number, the alias prefix and the listing query
Normalize(i) ==
    /\ frame[i].pc = "idle"
    /\ \E raw \in RawPhones :
         Set(i, [IdleFrame EXCEPT
                   !.pc = "normalized",
                   !.phone_number = raw,
                   !.calls = << [Call("cleaned_phone_number", "called", "value")
                                   EXCEPT !.key = cleaned_phone_number(raw)],
                                [Call("given_alias_prefix", "called", "value")
                                   EXCEPT !.key = given_alias_prefix(cfg, raw)],
                                [Call("query", "called", "value")
                                   EXCEPT !.key = alias_query(cfg, raw)] >>])
    /\ UNCHANGED <<cfg, aliases>>

\* client.py:50 applied to a string that is already cleaned
Renormalize(i) ==
    /\ frame[i].pc = "normalized"
    /\ Set(i, [Log(frame[i], [Call("cleaned_phone_number", "called", "value")
                                EXCEPT !.key = cleaned_phone_number(frame[i].calls[1].key)])
                 EXCEPT !.pc = "renormalized"])
    /\ UNCHANGED <<cfg, aliases>>

Forget(i) ==
    /\ frame[i].pc = "renormalized"
    /\ Set(i, IdleFrame)
    /\ UNCHANGED <<cfg, aliases>>

NextNorm ==
    \E i \in Procs :
        \/ Sequential(i) /\ Normalize(i)
        \/ Sequential(i) /\ Renormalize(i)
        \/ Sequential(i) /\ Forget(i)

SpecNorm == InitNorm /\ [][NextNorm]_vars

(***************************************************************************)
(* Vocabulary of the properties                                            *)
(***************************************************************************)
Entries(f, op) == {k \in DOMAIN f.calls : f.calls[k].op = op}
Has(f, op) == Entries(f, op) # {}
Count(f, op) == Cardinality(Entries(f, op))
ContactEntries(f, role) ==
    {k \in Entries(f, "get_or_create_alias_contact") : f.calls[k].role = role}
SmtpAttempted(f) == \E k \in DOMAIN f.calls : f.calls[k].op \in SmtpOps

\* The listing of this send succeeded and returned no alias.
ListedNone(f) ==
    \E k \in Entries(f, "get_aliases") :
        f.calls[k].ret = "value" /\ f.calls[k].list = <<>>

\* PREFIX + digits(phone_number) + SUFFIX, written out
ExpectedKey(f) == cfg.prefix \o StripNonDigits(f.phone_number) \o cfg.suffix

\* The reverse aliases that contact resolution returned during this send
Resolved(f) ==
    { Addr(f.calls[k].addr.name, f.calls[k].alias.id) :
        k \in {j \in Entries(f, "get_or_create_alias_contact") : f.calls[j].ret = "value"} }

\* The real recipient addresses given to this send
Reals(f) == {f.to_email, f.cc_email, f.bcc_email} \ {None}

Range(seq) == {seq[k] : k \in DOMAIN seq}

(***************************************************************************)
(* C1: when contact resolution for `to` returns None, send_email returns   *)
(* the to_email failure tuple and performs no SMTP step, whatever happens  *)
(* to cc and bcc.                                                          *)
(***************************************************************************)
C1_ToContactNoneReported ==
    \A i \in Procs :
        LET f == frame[i] IN
        (f.pc = "done" /\ \E k \in ContactEntries(f, "to") : f.calls[k].ret = "None")
            => (f.result = ToContactFailure /\ ~SmtpAttempted(f))

(***************************************************************************)
(* C2: when the listing returns one or more aliases, the alias used is the *)
(* first of the response, and no mailbox lookup, suffix lookup or create   *)
(* call is issued.                                                         *)
(***************************************************************************)
C2_ExistingAliasReturned ==
    \A i \in Procs :
        LET f == frame[i] IN
        \A k \in Entries(f, "get_aliases") :
            (f.calls[k].ret = "value" /\ f.calls[k].list # <<>>)
                => /\ f.pn_alias = Head(f.calls[k].list)
                   /\ ~Has(f, "get_all_mailboxes")
                   /\ ~Has(f, "get_signed_suffix")
                   /\ ~Has(f, "create_alias")
                   /\ ~Has(f, "post_custom_alias")

C2_Witness ==
    \E i \in Procs :
        /\ frame[i].pc = "to_contact"
        /\ \E k \in Entries(frame[i], "get_aliases") :
             /\ Len(frame[i].calls[k].list) = 2
             /\ frame[i].calls[k].list[1] # frame[i].calls[k].list[2]

(***************************************************************************)
(* C3 as stated: when the listing succeeds and returns no alias, exactly   *)
(* one mailbox lookup and exactly one create call are issued, the create   *)
(* call with the prefix PREFIX + digits + SUFFIX.                          *)
(***************************************************************************)
C3_ExactlyOneCreate ==
    \A i \in Procs :
        LET f == frame[i] IN
        (f.pc = "done" /\ ListedNone(f))
            => /\ Count(f, "get_all_mailboxes") = 1
               /\ Count(f, "create_alias") = 1
               /\ \A k \in Entries(f, "create_alias") : f.calls[k].key = ExpectedKey(f)

(***************************************************************************)
(* C3 amended: when the listing succeeds and returns no alias, exactly one *)
(* mailbox lookup is issued, for the configured primary email; create_alias*)
(* is called exactly once when that lookup returns the primary mailbox and *)
(* not at all otherwise; the prefix passed is PREFIX + digits + SUFFIX,    *)
(* the key that was used for the lookup.                                   *)
(***************************************************************************)
C3_OneLookupThenCreate ==
    \A i \in Procs :
        LET f == frame[i] IN
        (ListedNone(f) /\ f.pc \notin {"get_all_mailboxes", "get_signed_suffix"})
            => /\ Count(f, "get_all_mailboxes") = 1
               /\ \A k \in Entries(f, "get_all_mailboxes") :
                      f.calls[k].addr = SL_PRIMARY_EMAIL
               /\ Count(f, "create_alias") =
                      (IF f.primary_mailbox # NoMailbox THEN 1 ELSE 0)
               /\ Count(f, "post_custom_alias") <= Count(f, "create_alias")
               /\ \A k \in Entries(f, "create_alias") :
                      /\ f.calls[k].key = ExpectedKey(f)
                      /\ f.calls[k].addr = SL_PRIMARY_EMAIL
               /\ \A k \in Entries(f, "post_custom_alias") :
                      f.calls[k].key = ExpectedKey(f)
               /\ \A k \in Entries(f, "get_aliases") :
                      f.calls[k].key = ExpectedKey(f) \o <<"@">> \o SL_PRIMARY_DOMAIN

C3_Witness ==
    \E i \in Procs :
        /\ ListedNone(frame[i])
        /\ cfg.suffix # <<>>
        /\ frame[i].pc = "to_contact"
        /\ Count(frame[i], "create_alias") = 1
        /\ \E k \in Entries(frame[i], "post_custom_alias") :
               frame[i].calls[k].ret = "value"

(***************************************************************************)
(* C4: in every send that reaches the transport step, the To, Cc and Bcc   *)
(* headers and the envelope recipients hold only reverse aliases returned  *)
(* by contact resolution, never a real recipient address.                  *)
(***************************************************************************)
OnlyReverseAliases(f, msg, rcpts) ==
    /\ msg.To \in Resolved(f)
    /\ msg.Cc \in Resolved(f) \cup {None}
    /\ msg.Bcc \in Resolved(f) \cup {None}
    /\ Range(rcpts) \subseteq Resolved(f)
    /\ ({msg.To, msg.Cc, msg.Bcc} \cup Range(rcpts)) \cap Reals(f) = {}

C4_OnlyReverseAliasesSent ==
    \A i \in Procs :
        LET f == frame[i] IN
        /\ (f.pc \in {"connect", "starttls", "login", "sendmail", "quit"}
              \/ SmtpAttempted(f))
               => OnlyReverseAliases(f, f.msg, f.recipients)
        /\ \A k \in Entries(f, "sendmail") :
               /\ OnlyReverseAliases(f, f.calls[k].msg, f.calls[k].rcpts)
               /\ f.calls[k].rcpts # <<>>

C4_Witness ==
    \E i \in Procs :
        \E k \in Entries(frame[i], "sendmail") :
            /\ frame[i].calls[k].out = "ok"
            /\ frame[i].calls[k].msg.Cc # None
            /\ frame[i].calls[k].msg.Bcc # None
            /\ Len(frame[i].calls[k].rcpts) = 3

(***************************************************************************)
(* C5: send_email never raises to its caller; whenever a call made during  *)
(* the send raised (an API call or an SMTP call), send_email returns       *)
(* (False, "Failed to send email. Please try again later.").               *)
(***************************************************************************)
C5_NeverRaises ==
    \A i \in Procs :
        LET f == frame[i] IN
        /\ f.pc # "escaped"
        /\ (\E k \in DOMAIN f.calls : f.calls[k].ret = "raised")
               => (f.pc = "done" /\ f.result = GenericFailure)
        /\ f.pc = "done"
               => f.result \in {AliasFailure, ToContactFailure, GenericFailure, Success}

C5_Witness ==
    \E i \in Procs :
        LET f == frame[i] IN
        /\ f.pc = "done"
        /\ f.result = GenericFailure
        /\ f.pn_alias # NoAlias
        /\ f.to_email_reverse_alias # None
        /\ \E k \in Entries(f, "sendmail") : f.calls[k].ret = "raised"

(***************************************************************************)
(* C6: no exception escapes the alias API client layer: whichever way a    *)
(* request ends, the operation returns its value or its None / False       *)
(* sentinel instead of raising.                                            *)
(***************************************************************************)
C6_NoExceptionEscapesApi ==
    \A i \in Procs :
        \A k \in DOMAIN frame[i].calls :
            frame[i].calls[k].op \in HttpOps => frame[i].calls[k].ret # "raised"

(***************************************************************************)
(* C7: when `to` contact resolution succeeds and contact resolution for a  *)
(* supplied cc (respectively bcc) recipient fails, send_email still goes   *)
(* on to the SMTP send, the message has no Cc (respectively Bcc) header    *)
(* and that recipient is absent from the envelope.                         *)
(***************************************************************************)
OptionalFailed(f, role) ==
    \E k \in ContactEntries(f, role) : f.calls[k].out # "ok"

\* How many of cc, bcc were resolved to a reverse alias.
OptionalResolved(f) ==
    Cardinality({role \in {"cc", "bcc"} :
        \E k \in ContactEntries(f, role) : f.calls[k].ret = "value"})

C7_OptionalFailureOmitsRecipient ==
    \A i \in Procs :
        LET f == frame[i] IN
        (/\ f.pc = "done"
         /\ \E k \in ContactEntries(f, "to") : f.calls[k].ret = "value")
            => /\ OptionalFailed(f, "cc")
                   => /\ Has(f, "connect")
                      /\ f.msg.Cc = None
                      /\ Len(f.recipients) <= 1 + OptionalResolved(f)
               /\ OptionalFailed(f, "bcc")
                   => /\ Has(f, "connect")
                      /\ f.msg.Bcc = None
                      /\ Len(f.recipients) <= 1 + OptionalResolved(f)

(***************************************************************************)
(* C8: under sequential use, against a service whose listing shows every   *)
(* alias it created, at most one alias is ever created for a phone number, *)
(* and a send for a number whose alias was created by an earlier send      *)
(* reuses that alias and calls create_alias no more.                       *)
(***************************************************************************)
CreatedFor(key) ==
    {k \in DOMAIN aliases :
        /\ aliases[k].note = "bridge"
        /\ aliases[k].email = key \o <<"@">> \o SL_PRIMARY_DOMAIN}

\* Aliases of other keys whose address the service's filter also matches.
Colliding(key) ==
    {k \in DOMAIN aliases : Contains(aliases[k].email, key \o <<"@">> \o SL_PRIMARY_DOMAIN)}
        \ CreatedFor(key)

CreatedInThisSend(f) ==
    \E k \in Entries(f, "post_custom_alias") : f.calls[k].out = "ok"

C8_AtMostOneAliasPerNumber ==
    /\ \A ph \in Phones :
           Cardinality(CreatedFor(cfg.prefix \o StripNonDigits(ph) \o cfg.suffix)) <= 1
    /\ \A i \in Procs :
           LET f == frame[i] IN
           (/\ \E k \in Entries(f, "get_aliases") : f.calls[k].ret = "value"
            /\ ~CreatedInThisSend(f)
            /\ CreatedFor(ExpectedKey(f)) # {}
            /\ Colliding(ExpectedKey(f)) = {})
               => /\ \A k \in CreatedFor(ExpectedKey(f)) : f.pn_alias = aliases[k]
                  /\ ~Has(f, "create_alias")

C8_Witness ==
    \E i \in Procs :
        LET f == frame[i] IN
        /\ f.pc = "to_contact"
        /\ ~CreatedInThisSend(f)
        /\ CreatedFor(ExpectedKey(f)) # {}
        /\ Colliding(ExpectedKey(f)) = {}
        /\ \E k \in CreatedFor(ExpectedKey(f)) : f.pn_alias = aliases[k]
        /\ Len(aliases) >= 2

(***************************************************************************)
(* C9: if alias resolution fails at any sub-step (listing, mailbox lookup, *)
(* suffix lookup, creation), send_email returns the phone-number-alias     *)
(* failure tuple and issues no contact resolution and no SMTP step; and a  *)
(* failed listing or mailbox lookup is never followed by a create call.    *)
(***************************************************************************)
C9_AliasFailureReported ==
    \A i \in Procs :
        LET f == frame[i] IN
        (f.pc = "done" /\ f.pn_alias = NoAlias)
            => /\ f.result = AliasFailure
               /\ ~Has(f, "get_or_create_alias_contact")
               /\ ~SmtpAttempted(f)
               /\ (\E k \in Entries(f, "get_aliases") \cup Entries(f, "get_all_mailboxes") :
                       f.calls[k].ret # "value")
                    => ~Has(f, "create_alias")

(***************************************************************************)
(* C10: a send is terminal on the first failure of a mandatory step: once  *)
(* the alias step or the `to` contact resolution has failed, no further    *)
(* external call of any kind is issued for that request.                   *)
(***************************************************************************)
MandatoryFailure(c) ==
    \/ c.op \in {"get_aliases", "get_all_mailboxes", "get_signed_suffix",
                 "post_custom_alias"} /\ c.ret # "value"
    \/ c.op = "get_or_create_alias_contact" /\ c.role = "to" /\ c.ret # "value"

C10_TerminalOnFirstFailure ==
    \A i \in Procs :
        \A k \in DOMAIN frame[i].calls :
            MandatoryFailure(frame[i].calls[k]) => k = Len(frame[i].calls)

(***************************************************************************)
(* C11: the end-to-end scenario. Empty configured prefix and suffix, phone *)
(* "+237123456789", no alias listed, primary mailbox present, suffix       *)
(* "@example.com" on offer, only `to` supplied, every call succeeding.     *)
(***************************************************************************)
ScenarioPhone == <<"+", "2", "3", "7", "1", "2", "3", "4", "5", "6", "7", "8", "9">>

Scenario(f) ==
    /\ cfg.prefix = <<>> /\ cfg.suffix = <<>>
    /\ f.pc = "done"
    /\ f.phone_number = ScenarioPhone
    /\ f.cc_email = None /\ f.bcc_email = None
    /\ ListedNone(f)
    /\ f.primary_mailbox # NoMailbox
    /\ f.signed_suffix # "None"
    /\ \A k \in DOMAIN f.calls : f.calls[k].out \in {"ok", "called"}

ScenarioRuns(f, prefix) ==
    /\ Count(f, "get_signed_suffix") = 1
    /\ Count(f, "create_alias") = 1
    /\ Count(f, "post_custom_alias") = 1
    /\ \A k \in Entries(f, "create_alias") \cup Entries(f, "post_custom_alias") :
           f.calls[k].key = prefix
    /\ Count(f, "get_or_create_alias_contact") = 1
    /\ \A k \in Entries(f, "get_or_create_alias_contact") :
           f.calls[k].role = "to" /\ f.calls[k].addr = f.to_email
    /\ Count(f, "sendmail") = 1
    /\ \A k \in Entries(f, "sendmail") : f.calls[k].msg.From = SL_PRIMARY_EMAIL
    /\ f.result = Success

\* C11 as stated: the scenario creates the alias with prefix "123456789".
C11_ScenarioPrefixWithoutCountryCode ==
    \A i \in Procs :
        Scenario(frame[i])
            => ScenarioRuns(frame[i], <<"1", "2", "3", "4", "5", "6", "7", "8", "9">>)

\* C11 amended: the scenario performs one suffix lookup, one alias creation
\* with prefix "237123456789" (every digit of the phone number), one contact
\* resolution for `to`, one SMTP send with From the primary email, and returns
\* (True, "Email sent successfully at <timestamp>.").
C11_ScenarioPrefixAllDigits ==
    \A i \in Procs :
        Scenario(frame[i])
            => ScenarioRuns(frame[i],
                   <<"2", "3", "7", "1", "2", "3", "4", "5", "6", "7", "8", "9">>)

C11_Witness ==
    \E i \in Procs : Scenario(frame[i]) /\ frame[i].result = Success

(***************************************************************************)
(* C12: the client does no locking or deduplication around alias creation. *)
(* Under concurrent use the only thing that holds back a create call is    *)
(* the invocation's own earlier listing: an invocation that saw an empty   *)
(* listing and found the primary mailbox calls create_alias even when the  *)
(* other invocation has created the alias in the meantime, and its         *)
(* creation request never waits for the other invocation. The race itself  *)
(* (both see an empty listing, both create, two aliases for one number) is *)
(* the witness.                                                            *)
(***************************************************************************)
C12_NoDeduplication ==
    \A i \in Procs :
        LET f == frame[i] IN
        /\ Has(f, "create_alias") => ListedNone(f)
        /\ (/\ ListedNone(f)
            /\ f.primary_mailbox # NoMailbox
            /\ f.pc \notin {"get_all_mailboxes", "get_signed_suffix"})
               => Count(f, "create_alias") = 1
        /\ (f.pc = "post_custom_alias" /\ Len(aliases) < MaxAliases)
               => ENABLED CreateAlias(i)

C12_Witness ==
    /\ \A i \in Procs :
           /\ ListedNone(frame[i])
           /\ CreatedInThisSend(frame[i])
           /\ ExpectedKey(frame[i]) = <<"1", "2">>
    /\ Cardinality(CreatedFor(<<"1", "2">>)) = 2

(***************************************************************************)
(* C13: send_email returns success exactly when, after the alias and the   *)
(* `to` contact were resolved, the sendmail transaction and the session    *)
(* close both completed without exception; otherwise it returns False with *)
(* one of the three fixed messages, never text of the underlying error.    *)
(***************************************************************************)
Completed(f, op) == \E k \in Entries(f, op) : f.calls[k].out = "ok"

C13_SuccessIffSentAndClosed ==
    \A i \in Procs :
        LET f == frame[i] IN
        f.pc = "done"
            => /\ f.result.success
                    <=> /\ f.pn_alias # NoAlias
                        /\ f.to_email_reverse_alias # None
                        /\ Completed(f, "sendmail")
                        /\ Completed(f, "quit")
               /\ f.result.success => f.result = Success
               /\ ~f.result.success
                    => f.result \in {AliasFailure, ToContactFailure, GenericFailure}

C13_Witness ==
    \E i \in Procs :
        /\ frame[i].pc = "done"
        /\ frame[i].result = Success
        /\ Completed(frame[i], "quit")

(***************************************************************************)
(* C14: create_alias issues the creation request only after a suffix       *)
(* lookup that succeeded and returned the suffix "@" + domain; when the    *)
(* lookup fails or no suffix matches, create_alias returns None (so that   *)
(* send_email reports the alias failure) and issues no creation request.   *)
(***************************************************************************)
C14_CreateOnlyAfterSuffix ==
    \A i \in Procs :
        LET f == frame[i] IN
        /\ \A k \in Entries(f, "post_custom_alias") :
               /\ \E j \in Entries(f, "get_signed_suffix") :
                      j < k /\ f.calls[j].ret = "value"
               /\ SuffixText(f.signed_suffix) = <<"@">> \o SL_PRIMARY_DOMAIN
        /\ (f.pc = "done" /\ Has(f, "get_signed_suffix") /\ f.signed_suffix = "None")
               => /\ ~Has(f, "post_custom_alias")
                  /\ f.result = AliasFailure

(***************************************************************************)
(* C15: one send_email call makes at most one SMTP connection and at most  *)
(* one sendmail transaction, retries nothing after a failure, and reaches  *)
(* sendmail only after its own alias resolution and `to` contact           *)
(* resolution both succeeded.                                              *)
(***************************************************************************)
C15_SingleAttemptAfterResolution ==
    \A i \in Procs :
        LET f == frame[i] IN
        /\ \A op \in SmtpOps : Count(f, op) <= 1
        /\ \A k \in DOMAIN f.calls :
               (f.calls[k].op \in SmtpOps /\ f.calls[k].out = "raise")
                   => k = Len(f.calls)
        /\ \A k \in Entries(f, "sendmail") :
               /\ f.pn_alias # NoAlias
               /\ \E j \in Entries(f, "get_aliases") : j < k /\ f.calls[j].ret = "value"
               /\ \E j \in ContactEntries(f, "to") :
                      /\ j < k
                      /\ f.calls[j].ret = "value"
                      /\ f.calls[j].alias = f.pn_alias
               /\ \E j \in Entries(f, "connect") : j < k /\ f.calls[j].out = "ok"

C15_Witness ==
    \E i \in Procs :
        /\ frame[i].pc = "done"
        /\ \E k \in Entries(frame[i], "sendmail") : frame[i].calls[k].out = "raise"

(***************************************************************************)
(* C16: normalization removes every non-digit character and keeps all      *)
(* digits in their original order ("+237 123-456789" gives                 *)
(* "237123456789"); it is idempotent, and two raw inputs with the same     *)
(* digit sequence give the same alias lookup key.                          *)
(***************************************************************************)
C16_NormalizationKeepsDigits ==
    \A i \in Procs :
        LET f == frame[i]
            out == f.calls[1].key
        IN  f.pc \in {"normalized", "renormalized"}
            => /\ out = SelectSeq(f.phone_number, IsDigit)
               /\ f.phone_number = ExamplePhone
                    => out = <<"2", "3", "7", "1", "2", "3", "4", "5", "6", "7", "8", "9">>
               /\ f.calls[2].key = cfg.prefix \o out \o cfg.suffix
               /\ f.calls[3].key = f.calls[2].key \o <<"@">> \o SL_PRIMARY_DOMAIN
               /\ f.pc = "renormalized" => f.calls[4].key = out
               /\ \A other \in RawPhones :
                      SelectSeq(other, IsDigit) = SelectSeq(f.phone_number, IsDigit)
                          => alias_query(cfg, other) = f.calls[3].key

C16_Witness ==
    \E i \in Procs :
        /\ frame[i].pc = "renormalized"
        /\ frame[i].phone_number = ExamplePhone
        /\ frame[i].calls[4].key = frame[i].calls[1].key

(***************************************************************************)
(* C17: every SMTP session a send opens is closed (quit) before send_email *)
(* returns, on every path; a failure of STARTTLS, login or sendmail does   *)
(* not leave the session open.                                             *)
(***************************************************************************)
C17_SessionClosedBeforeReturn ==
    \A i \in Procs :
        LET f == frame[i] IN
        (/\ f.pc = "done"
         /\ Completed(f, "connect")
         /\ \A k \in Entries(f, "quit") : f.calls[k].out = "ok")
            => (f.session = "closed" /\ Completed(f, "quit"))

(***************************************************************************)
(* C18: in every send that reaches the transport step the envelope is the  *)
(* `to` reverse alias followed by the cc and bcc reverse aliases that were *)
(* supplied and resolved; a Cc (Bcc) header is present exactly when the cc *)
(* (bcc) reverse alias is in the envelope; and contact resolution for cc   *)
(* or bcc is attempted only when that recipient was supplied.              *)
(***************************************************************************)
ResolvedAs(f, role) ==
    {Addr(f.calls[k].addr.name, f.calls[k].alias.id) :
        k \in {j \in ContactEntries(f, role) : f.calls[j].ret = "value"}}

SeqOf(S) == IF S = {} THEN <<>> ELSE <<CHOOSE x \in S : TRUE>>

ExpectedEnvelope(f) ==
    SeqOf(ResolvedAs(f, "to")) \o SeqOf(ResolvedAs(f, "cc")) \o SeqOf(ResolvedAs(f, "bcc"))

C18_EnvelopeMatchesHeaders ==
    \A i \in Procs :
        LET f == frame[i] IN
        /\ ContactEntries(f, "cc") # {} => f.cc_email # None
        /\ ContactEntries(f, "bcc") # {} => f.bcc_email # None
        /\ \A role \in {"to", "cc", "bcc"} : Cardinality(ContactEntries(f, role)) <= 1
        /\ \A k \in Entries(f, "sendmail") :
               LET c == f.calls[k] IN
               /\ c.rcpts = ExpectedEnvelope(f)
               /\ c.msg.To = c.rcpts[1]
               /\ c.msg.Cc # None <=> ResolvedAs(f, "cc") # {}
               /\ c.msg.Bcc # None <=> ResolvedAs(f, "bcc") # {}
               /\ c.msg.Cc # None => c.msg.Cc = c.rcpts[2]
               /\ c.msg.Bcc # None => c.msg.Bcc = c.rcpts[Len(c.rcpts)]

C18_Witness ==
    \E i \in Procs :
        LET f == frame[i] IN
        \E k \in Entries(f, "sendmail") :
            /\ f.cc_email # None /\ f.bcc_email # None
            /\ ResolvedAs(f, "cc") = {}
            /\ ResolvedAs(f, "bcc") # {}
            /\ Len(f.calls[k].rcpts) = 2

(***************************************************************************)
(* C19: no sequence of sends deletes or modifies an existing alias: every  *)
(* request a send issues is an alias listing, a mailbox listing, a suffix  *)
(* lookup, an alias creation or a contact get-or-create, every step leaves *)
(* the aliases already on the service as they were (the list only grows),  *)
(* and a send that created an alias and then failed leaves it in place.    *)
(***************************************************************************)
C19_AliasesOnlyGrow ==
    [][/\ Len(aliases') >= Len(aliases)
       /\ SubSeq(aliases', 1, Len(aliases)) = aliases
       /\ \A i \in Procs : \A k \in DOMAIN frame'[i].calls :
              frame'[i].calls[k].op \in HttpOps \cup SmtpOps \cup {"create_alias"}]_vars

C19_Witness ==
    \E i \in Procs :
        LET f == frame[i] IN
        /\ f.pc = "done"
        /\ f.result # Success
        /\ CreatedInThisSend(f)
        /\ \E k \in DOMAIN aliases :
               /\ aliases[k] = f.pn_alias
               /\ aliases[k].note = "bridge"

(***************************************************************************)
(* C20: the alias a send uses for phone number P has an email exactly      *)
(* equal to prefix + digits(P) + suffix + "@" + primary domain, also when  *)
(* the listing returns aliases whose address merely contains the query.    *)
(***************************************************************************)
C20_AliasEmailIsExactKey ==
    \A i \in Procs :
        LET f == frame[i] IN
        f.pn_alias # NoAlias =>
            f.pn_alias.email = ExpectedKey(f) \o <<"@">> \o SL_PRIMARY_DOMAIN

(***************************************************************************)
(* C21: the bcc reverse alias is not disclosed to the `to` and cc          *)
(* recipients: when it is not itself the `to` or cc reverse alias, no      *)
(* header of the message data handed to the one sendmail transaction       *)
(* carries it.                                                             *)
(***************************************************************************)
Headers(msg) == {msg.From, msg.To, msg.Cc, msg.Bcc}

C21_BccNotDisclosed ==
    \A i \in Procs :
        LET f == frame[i] IN
        \A k \in Entries(f, "sendmail") :
            \A b \in ResolvedAs(f, "bcc") :
                b \notin ResolvedAs(f, "to") \cup ResolvedAs(f, "cc")
                    => b \notin Headers(f.calls[k].msg)

====
